---- MODULE Spec2Model ----
(***************************************************************************)
(* Model of the Augmented-Analytics data-analysis assistant:               *)
(*   clean_dataframe (cleaner.py), profile_dataframe (profiler.py),        *)
(*   Orchestrator.run_pipeline / run_what_if_scenario (app/orchestrator.py)*)
(*   and the Streamlit session of app.py.                                  *)
(*                                                                         *)
(* Numbers.  pandas computes in IEEE doubles.  The model computes in exact *)
(* rationals [n, d] extended with the IEEE specials: d = 0 encodes NaN     *)
(* (n = 0), +inf (n = 1) and -inf (n = -1).  Rounding error is abstracted  *)
(* away, the special values are not.  A standard deviation or a Pearson    *)
(* correlation is the square root of a rational; it is kept exactly as a   *)
(* sign and a square ("surd").                                             *)
(*                                                                         *)
(* Frames.  A DataFrame is an object on a heap, reached through a          *)
(* reference, so that df.copy() and in-place writes are distinguishable.   *)
(* pandas 2.x semantics are modelled (no copy-on-write).                   *)
(***************************************************************************)
EXTENDS Integers, Sequences, FiniteSets, TLC

-----------------------------------------------------------------------------
(* Bounds of the model *)

\* largest number of rows of a dataset
MaxRows == 2
\* largest numeric cell of an enumerated dataset
MaxVal == 1
\* largest length of the chat history
MaxMessages == 3
\* largest number of frames the caller of a DataFrameManager holds
MaxFrames == 2

-----------------------------------------------------------------------------
(* Extended rational arithmetic (IEEE double, rounding abstracted) *)

Abs(i) == IF i < 0 THEN -i ELSE i

Sgn(i) == IF i < 0 THEN -1 ELSE IF i > 0 THEN 1 ELSE 0

RECURSIVE Gcd(_, _)
Gcd(a, b) == IF b = 0 THEN a ELSE Gcd(b, a % b)

Lcm(a, b) == (a \div Gcd(a, b)) * b

\* the reduced fraction n/d, d # 0
Frac(n, d) ==
    LET g == Gcd(Abs(n), Abs(d))
        s == IF d < 0 THEN -1 ELSE 1
    IN  [n |-> (s * n) \div g, d |-> (s * d) \div g]

R(i) == [n |-> i, d |-> 1]

NaN == [n |-> 0, d |-> 0]

Inf(s) == [n |-> s, d |-> 0]

IsNaN(a) == a.d = 0 /\ a.n = 0

IsInf(a) == a.d = 0 /\ a.n # 0

IsFinite(a) == a.d # 0

RSgn(a) == Sgn(a.n)

RNeg(a) == [n |-> -a.n, d |-> a.d]

RAbs(a) == [n |-> Abs(a.n), d |-> a.d]

RAdd(a, b) ==
    IF IsNaN(a) \/ IsNaN(b) THEN NaN
    ELSE IF IsInf(a) /\ IsInf(b) THEN (IF a.n = b.n THEN a ELSE NaN)
    ELSE IF IsInf(a) THEN a
    ELSE IF IsInf(b) THEN b
    ELSE Frac(a.n * (Lcm(a.d, b.d) \div a.d) + b.n * (Lcm(a.d, b.d) \div b.d),
              Lcm(a.d, b.d))

RSub(a, b) == RAdd(a, RNeg(b))

RMul(a, b) ==
    IF IsNaN(a) \/ IsNaN(b) THEN NaN
    ELSE IF IsInf(a) \/ IsInf(b)
         THEN (IF RSgn(a) * RSgn(b) = 0 THEN NaN ELSE Inf(RSgn(a) * RSgn(b)))
    ELSE Frac((a.n \div Gcd(Abs(a.n), b.d)) * (b.n \div Gcd(Abs(b.n), a.d)),
              (a.d \div Gcd(Abs(b.n), a.d)) * (b.d \div Gcd(Abs(a.n), b.d)))

\* numpy float64 division: x/0 is +-inf, 0/0 is NaN, no exception
RDiv(a, b) ==
    IF IsNaN(a) \/ IsNaN(b) THEN NaN
    ELSE IF IsInf(a) /\ IsInf(b) THEN NaN
    ELSE IF IsInf(a) THEN Inf(RSgn(a) * (IF RSgn(b) < 0 THEN -1 ELSE 1))
    ELSE IF IsInf(b) THEN R(0)
    ELSE IF b.n = 0 THEN (IF a.n = 0 THEN NaN ELSE Inf(RSgn(a)))
    ELSE RMul(a, Frac(b.d, b.n))

\* a < b; every comparison with NaN is false
RLt(a, b) ==
    IF IsNaN(a) \/ IsNaN(b) THEN FALSE
    ELSE IF IsInf(a) \/ IsInf(b)
         THEN (IF IsInf(a) /\ IsInf(b) THEN a.n < b.n
               ELSE IF IsInf(a) THEN a.n < 0 ELSE b.n > 0)
    ELSE a.n * (Lcm(a.d, b.d) \div a.d) < b.n * (Lcm(a.d, b.d) \div b.d)

RGt(a, b) == RLt(b, a)

\* a != b in IEEE: NaN differs from everything, itself included
RNe(a, b) == IsNaN(a) \/ IsNaN(b) \/ a # b

\* the exact square root of a rational that is the square of a rational
ISqrt(i) == CHOOSE r \in 0..i : r * r = i

RSqrt(a) ==
    IF IsNaN(a) THEN NaN
    ELSE IF IsInf(a) THEN (IF a.n > 0 THEN a ELSE NaN)
    ELSE IF a.n < 0 THEN NaN
    ELSE [n |-> ISqrt(a.n), d |-> ISqrt(a.d)]

-----------------------------------------------------------------------------
(* Surds: sg * sqrt(sq), the exact value of a standard deviation or a      *)
(* correlation.  sq is an extended rational >= 0 (NaN for a NaN surd).     *)

Surd(sg, sq) == [sg |-> sg, sq |-> sq]

SNaN == Surd(0, NaN)

SIsNaN(a) == IsNaN(a.sq)

\* sqrt(v) for a variance v
SRoot(v) == IF IsNaN(v) THEN SNaN ELSE Surd(RSgn(v), v)

\* a != 0
SNe0(a) == SIsNaN(a) \/ a.sg # 0

\* abs(a) > t for a rational t >= 0
SAbsGt(a, t) == RGt(a.sq, RMul(t, t))

\* a > 0
SGt0(a) == ~SIsNaN(a) /\ a.sg > 0

\* a * r for an extended rational r
SMulR(a, r) ==
    IF SIsNaN(a) \/ IsNaN(r) THEN SNaN
    ELSE LET q == RMul(a.sq, RMul(r, r))
         IN  IF IsNaN(q) THEN SNaN ELSE Surd(a.sg * RSgn(r), q)

\* ((new - old) / abs(old)) * 100 for surds old # 0 and new whose quotient
\* is rational: new/|old| - old/|old|
SPct(old, new) ==
    IF SIsNaN(old) \/ SIsNaN(new) THEN NaN
    ELSE RMul(RSub(RMul(R(new.sg), RSqrt(RDiv(new.sq, old.sq))), R(old.sg)),
              R(100))

-----------------------------------------------------------------------------
(* pandas Series reductions; missing cells (NaN) are skipped *)

\* Series.dropna()
DropNa(s) == SelectSeq(s, LAMBDA c : ~IsNaN(c))

RECURSIVE SumSeq(_)
SumSeq(s) == IF s = <<>> THEN R(0) ELSE RAdd(Head(s), SumSeq(Tail(s)))

RECURSIVE Insert(_, _)
Insert(c, s) ==
    IF s = <<>> THEN <<c>>
    ELSE IF RLt(Head(s), c) THEN <<Head(s)>> \o Insert(c, Tail(s))
    ELSE <<c>> \o s

RECURSIVE SortVals(_)
SortVals(s) == IF s = <<>> THEN <<>> ELSE Insert(Head(s), SortVals(Tail(s)))

\* Series.mean()
Mean(s) ==
    LET v == DropNa(s)
    IN  IF v = <<>> THEN NaN ELSE RDiv(SumSeq(v), R(Len(v)))

\* the q-quantile of the sorted values v, by linear interpolation
QuantileOf(v, q) ==
    LET n == Len(v)
        pos == RMul(R(n - 1), q)
        lo == pos.n \div pos.d
        fr == RSub(pos, R(lo))
    IN  IF n = 0 THEN NaN
        ELSE IF fr.n = 0 THEN v[lo + 1]
        ELSE RAdd(v[lo + 1], RMul(fr, RSub(v[lo + 2], v[lo + 1])))

\* Series.quantile(q)
Quantile(s, q) == QuantileOf(SortVals(DropNa(s)), q)

\* Series.median()
Median(s) == Quantile(s, Frac(1, 2))

\* Series.var(), ddof = 1
Var(s) ==
    LET v == DropNa(s)
        n == Len(v)
        m == Mean(s)
        dev == [i \in 1..n |-> RMul(RSub(v[i], m), RSub(v[i], m))]
    IN  IF n < 2 THEN NaN ELSE RDiv(SumSeq(dev), R(n - 1))

\* Series.std(), ddof = 1
Std(s) == SRoot(Var(s))

\* Series.min()
Min(s) == LET v == SortVals(DropNa(s)) IN IF v = <<>> THEN NaN ELSE v[1]

\* Series.max()
Max(s) == LET v == SortVals(DropNa(s)) IN IF v = <<>> THEN NaN ELSE v[Len(v)]

\* sum of (x[i] - mx) * (y[i] - my)
CoMoment(x, mx, y, my) ==
    SumSeq([i \in 1..Len(x) |-> RMul(RSub(x[i], mx), RSub(y[i], my))])

\* cov / sqrt(vx * vy); NaN when a column is constant
CorrOf(n, cov, vxy) ==
    IF n < 2 \/ vxy.n = 0 THEN SNaN
    ELSE Surd(RSgn(cov), RDiv(RMul(cov, cov), vxy))

\* the correlation of the complete pairs x, y with means mx, my
CorrPairs(x, mx, y, my) ==
    CorrOf(Len(x), CoMoment(x, mx, y, my),
           RMul(CoMoment(x, mx, x, mx), CoMoment(y, my, y, my)))

\* the cells of s in the rows where neither a nor b is missing
BothPresent(s, a, b) ==
    SelectSeq([i \in 1..Len(s) |->
                  IF IsNaN(a[i]) \/ IsNaN(b[i]) THEN NaN ELSE s[i]],
              LAMBDA c : ~IsNaN(c))

\* Series.corr(other): Pearson, over the rows where both are present
Corr(a, b) ==
    CorrPairs(BothPresent(a, a, b), Mean(BothPresent(a, a, b)),
              BothPresent(b, a, b), Mean(BothPresent(b, a, b)))

-----------------------------------------------------------------------------
(* DataFrames on a heap of objects *)

\* a missing cell of an object column (read_csv turns it into NaN)
NA == "nan"

\* labels of the categorical column, in sort order
CatVals == <<"u", "v">>

\* a DataFrame: ordered column names, a dtype and the cells of each column
Frame(cols, dtype, data) == [cols |-> cols, dtype |-> dtype, data |-> data]

NRows(f) == IF f.cols = <<>> THEN 0 ELSE Len(f.data[f.cols[1]])

ColSet(f) == {f.cols[i] : i \in 1..Len(f.cols)}

\* pd.api.types.is_numeric_dtype(df[col]): true of int, float and bool
is_numeric_dtype(f, col) == f.dtype[col] \in {"number", "bool"}

\* df.select_dtypes(include = kinds).columns, in column order
select_dtypes(f, kinds) == SelectSeq(f.cols, LAMBDA c : f.dtype[c] \in kinds)

\* Series.isnull()
IsNull(f, col, cell) ==
    IF f.dtype[col] = "number" THEN IsNaN(cell) ELSE cell = NA

\* Series.isnull().any()
AnyNull(f, col) == \E i \in 1..NRows(f) : IsNull(f, col, f.data[col][i])

\* the smallest reference not in use
NewRef(h) == CHOOSE r \in 1..(Cardinality(DOMAIN h) + 1) : r \notin DOMAIN h

\* df.copy(): a new object holding the same cells
DfCopyAlias(h, r) == [heap |-> h, ref |-> r]

DfCopy(h, r) ==
    LET n == NewRef(h) IN [heap |-> (n :> h[r]) @@ h, ref |-> n]

\* df[col] = cells, a write to the object r
SetCol(h, r, col, cells) ==
    [h EXCEPT ![r] = [@ EXCEPT !.data = [@ EXCEPT ![col] = cells]]]

\* the objects of h still referenced from roots
Collect(h, roots) == [r \in (DOMAIN h) \cap roots |-> h[r]]

-----------------------------------------------------------------------------
(* cleaner.py *)

\* Series.value_counts()[v], missing cells not counted
CountOf(cells, v) == Cardinality({i \in 1..Len(cells) : cells[i] = v})

\* Series.mode(): the most frequent labels, sorted; empty when all missing
Mode(cells) ==
    LET present == SelectSeq(CatVals, LAMBDA v : CountOf(cells, v) > 0)
        best(v) == \A i \in 1..Len(present) :
                       CountOf(cells, present[i]) <= CountOf(cells, v)
    IN  SelectSeq(present, best)

\* Series.fillna(v) on a numeric column
FillNumAll(cells, v) == [i \in 1..Len(cells) |-> v]

FillNum(cells, v) == [i \in 1..Len(cells) |-> IF IsNaN(cells[i]) THEN v ELSE cells[i]]

\* Series.fillna(v) on an object column
FillObjFirst(cells, v) ==
    [i \in 1..Len(cells) |->
        IF cells[i] = NA /\ (\A j \in 1..(i - 1) : cells[j] # NA)
        THEN v ELSE cells[i]]

FillObj(cells, v) == [i \in 1..Len(cells) |-> IF cells[i] = NA THEN v ELSE cells[i]]

\* lines 10-17: the loop over the columns i.. of the copy r; mode()[0] of
\* an all-missing object column raises
RECURSIVE CleanCols(_, _, _)
CleanCols(h, r, i) ==
    LET f == h[r]
        col == f.cols[i]
    IN  IF i > Len(f.cols) THEN [heap |-> h, raised |-> FALSE]
        ELSE IF ~AnyNull(f, col) THEN CleanCols(h, r, i + 1)
        ELSE IF is_numeric_dtype(f, col)
             THEN CleanCols(SetCol(h, r, col,
                               FillNum(f.data[col], Median(f.data[col]))),
                            r, i + 1)
        ELSE IF Mode(f.data[col]) = <<>> THEN [heap |-> h, raised |-> TRUE]
        ELSE CleanCols(SetCol(h, r, col,
                          FillObj(f.data[col], Mode(f.data[col])[1])),
                       r, i + 1)

\* clean_dataframe(df): [heap, ref of the cleaned copy, raised]
Cleaned(ref, done) == [heap |-> done.heap, ref |-> ref, raised |-> done.raised]

Copy1(c) == Cleaned(c.ref, CleanCols(c.heap, c.ref, 1))

clean_dataframe(h, r) == Copy1(DfCopy(h, r))

-----------------------------------------------------------------------------
(* profiler.py *)

\* DataFrame.describe() of one numeric column
Describe(cells) ==
    LET v == SortVals(DropNa(cells))
    IN  [count |-> Len(v), mean |-> Mean(cells), std |-> Std(cells),
         min |-> IF v = <<>> THEN NaN ELSE v[1],
         q25 |-> QuantileOf(v, Frac(1, 4)), q50 |-> QuantileOf(v, Frac(1, 2)),
         q75 |-> QuantileOf(v, Frac(3, 4)),
         max |-> IF v = <<>> THEN NaN ELSE v[Len(v)]]

\* lines 14-18: the IQR outlier count of one numeric column
OutlierCountNonStrict(cells) ==
    LET v == SortVals(DropNa(cells))
        Q1 == QuantileOf(v, Frac(1, 4))
        Q3 == QuantileOf(v, Frac(3, 4))
        IQR == RSub(Q3, Q1)
        lo == RSub(Q1, RMul(Frac(3, 2), IQR))
        hi == RAdd(Q3, RMul(Frac(3, 2), IQR))
    IN  Cardinality({i \in 1..Len(cells) :
                        ~IsNaN(cells[i])
                            /\ (~RGt(cells[i], lo) \/ ~RLt(cells[i], hi))})

OutlierCount(cells) ==
    LET v == SortVals(DropNa(cells))
        Q1 == QuantileOf(v, Frac(1, 4))
        Q3 == QuantileOf(v, Frac(3, 4))
        IQR == RSub(Q3, Q1)
        lo == RSub(Q1, RMul(Frac(3, 2), IQR))
        hi == RAdd(Q3, RMul(Frac(3, 2), IQR))
    IN  Cardinality({i \in 1..Len(cells) :
                        RLt(cells[i], lo) \/ RGt(cells[i], hi)})

\* lines 24-27: value counts and number of distinct labels
CatAnalysis(cells) ==
    LET present == {v \in {CatVals[i] : i \in 1..Len(CatVals)} :
                       CountOf(cells, v) > 0}
    IN  [value_counts |-> [v \in present |-> CountOf(cells, v)],
         unique_values_count |-> Cardinality(present)]

\* line 9: df[numerical_cols].describe() raises ValueError ("Cannot describe
\* a DataFrame without columns") when there is no numeric column
ProfileRaises(f) == select_dtypes(f, {"number"}) = <<>>

\* profile_dataframe(df)
profile_dataframe(f) ==
    LET numerical_cols == select_dtypes(f, {"number"})
        categorical_cols == select_dtypes(f, {"object", "category"})
        nums == {numerical_cols[i] : i \in 1..Len(numerical_cols)}
        cats == {categorical_cols[i] : i \in 1..Len(categorical_cols)}
    IN  IF ProfileRaises(f) THEN [raised |-> TRUE]
        ELSE [raised |-> FALSE,
              basic_statistics |-> [c \in nums |-> Describe(f.data[c])],
              outliers_count |-> [c \in nums |-> OutlierCount(f.data[c])],
              categorical_analysis |-> [c \in cats |-> CatAnalysis(f.data[c])]]

-----------------------------------------------------------------------------
(* app/orchestrator.py *)

StatNames == {"mean", "median", "std", "min", "max"}

ChangeTypes == {"Percentage Increase", "Percentage Decrease", "Set to Value"}

\* lines 66-72 and 90-96: the five statistics of a column
Stats(cells) ==
    [mean |-> Mean(cells), median |-> Median(cells), std |-> Std(cells),
     min |-> Min(cells), max |-> Max(cells)]

\* line 102: ((new - old) / abs(old)) * 100
PctNoAbs(old, new) == RMul(RDiv(RSub(new, old), old), R(100))

Pct(old, new) == RMul(RDiv(RSub(new, old), RAbs(old)), R(100))

\* lines 99-105: the percentage change of every statistic, 0 for a zero
\* baseline
StatsChanges(original_stats, new_stats) ==
    [s \in StatNames |->
        IF s = "std"
        THEN (IF SNe0(original_stats[s])
              THEN SPct(original_stats[s], new_stats[s]) ELSE R(0))
        ELSE (IF RNe(original_stats[s], R(0))
              THEN Pct(original_stats[s], new_stats[s]) ELSE R(0))]

\* lines 75-83: the cells of the target column after the modification
ModifySwapped(cells, change_type, val) ==
    [i \in 1..Len(cells) |->
        CASE change_type = "Percentage Increase" ->
                 RMul(cells[i], RSub(R(1), RDiv(val, R(100))))
          [] change_type = "Percentage Decrease" ->
                 RMul(cells[i], RAdd(R(1), RDiv(val, R(100))))
          [] change_type = "Set to Value" -> val]

Modify(cells, change_type, val) ==
    [i \in 1..Len(cells) |->
        CASE change_type = "Percentage Increase" ->
                 RMul(cells[i], RAdd(R(1), RDiv(val, R(100))))
          [] change_type = "Percentage Decrease" ->
                 RMul(cells[i], RSub(R(1), RDiv(val, R(100))))
          [] change_type = "Set to Value" -> val]

\* lines 120-125: the estimated impact on a correlated column
EstimatedImpactUnsigned(correlation, change_type, val, mean) ==
    IF change_type \in {"Percentage Increase", "Percentage Decrease"}
    THEN SMulR(correlation, val)
    ELSE SMulR(correlation, RMul(RDiv(RSub(val, mean), mean), R(100)))

EstimatedImpact(correlation, change_type, val, mean) ==
    IF change_type \in {"Percentage Increase", "Percentage Decrease"}
    THEN SMulR(correlation,
               RMul(val, R(IF change_type = "Percentage Increase"
                           THEN 1 ELSE -1)))
    ELSE SMulR(correlation, RMul(RDiv(RSub(val, mean), mean), R(100)))

\* lines 127-130: the entry of one correlated column
ImpactEntry(other_col, correlation, change_type, val, mean) ==
    [column |-> other_col, correlation |-> correlation,
     estimated_impact |-> EstimatedImpact(correlation, change_type, val, mean)]

\* lines 113-130: the entries of the columns kept, in their order
ImpactEntries(orig, kept, col, change_type, val, mean) ==
    [i \in 1..Len(kept) |->
        ImpactEntry(kept[i], Corr(orig.data[col], orig.data[kept[i]]),
                    change_type, val, mean)]

\* lines 110-130: impact_analysis, in the column order of the frame: the
\* other numeric columns whose correlation exceeds 0.1 in absolute value
ImpactAnalysisNoThreshold(orig, numerical_cols, col, change_type, val, mean) ==
    ImpactEntries(orig, SelectSeq(numerical_cols, LAMBDA c : c # col),
                  col, change_type, val, mean)

ImpactAnalysis(orig, numerical_cols, col, change_type, val, mean) ==
    ImpactEntries(orig,
        SelectSeq(numerical_cols,
                  LAMBDA c : /\ c # col
                             /\ SAbsGt(Corr(orig.data[col], orig.data[c]),
                                       Frac(1, 10))),
        col, change_type, val, mean)

\* lines 58-63: the validation of the target column
ValidateSwapped(f, col) ==
    IF col \notin ColSet(f) THEN "not numerical"
    ELSE IF ~is_numeric_dtype(f, col) THEN "not found"
    ELSE "ok"

Validate(f, col) ==
    IF col \notin ColSet(f) THEN "not found"
    ELSE IF ~is_numeric_dtype(f, col) THEN "not numerical"
    ELSE "ok"

\* lines 59 and 63: the returned message names the column and the problem
ColumnError(col, problem) ==
    [kind |-> "validation_error", names |-> col, problem |-> problem]

\* line 85: the returned message names the change type
UnknownChangeTypeNamesColumn(col, change_type) ==
    [kind |-> "validation_error", names |-> col,
     problem |-> "unknown change type"]

UnknownChangeType(col, change_type) ==
    [kind |-> "validation_error", names |-> change_type,
     problem |-> "unknown change type"]

\* lines 185-188: any exception becomes an error message, nothing else is
\* returned
ErrorMessage == [kind |-> "error"]

\* the steps of a run that got as far as the analyzer chain
AllSteps ==
    {"baseline", "modify", "new_stats", "changes", "correlation", "profile",
     "llm"}

\* line 161: the label of the strength of a correlation
StrengthSwapped(correlation) ==
    IF SAbsGt(correlation, Frac(7, 10)) THEN "Strong"
    ELSE IF SAbsGt(correlation, Frac(3, 10)) THEN "Weak"
    ELSE "Moderate"

Strength(correlation) ==
    IF SAbsGt(correlation, Frac(7, 10)) THEN "Strong"
    ELSE IF SAbsGt(correlation, Frac(3, 10)) THEN "Moderate"
    ELSE "Weak"

\* line 162: the label of the direction of a correlation
Direction(correlation) == IF SGt0(correlation) THEN "positive" ELSE "negative"

\* lines 157-170: the bullet list of the report, one item per entry of
\* impact_analysis in its order, empty when there is none.  An item is kept
\* as its column and its two labels; the digits printed for the numbers are
\* not modelled.
Render(impact_analysis) ==
    [i \in 1..Len(impact_analysis) |->
        [column |-> impact_analysis[i].column,
         correlation_strength |-> Strength(impact_analysis[i].correlation),
         direction |-> Direction(impact_analysis[i].correlation)]]

\* lines 132-188: the modified frame is profiled (only to feed the prompt of
\* the analyzer chain, so only whether profiling raised is kept), the chain
\* is invoked and the report is assembled; any exception becomes the error
\* message
Report(h1, modified, m, original_stats, new_stats, impact_analysis, llm_ok) ==
    IF ProfileRaises(modified)
    THEN [heap |-> h1, steps |-> AllSteps \ {"llm"}, modified |-> modified,
          llm |-> "not called", ret |-> ErrorMessage]
    ELSE IF ~llm_ok
    THEN [heap |-> h1, steps |-> AllSteps, modified |-> modified,
          llm |-> "failed", ret |-> ErrorMessage]
    ELSE [heap |-> h1, steps |-> AllSteps, modified |-> modified,
          llm |-> "ok",
          ret |-> [kind |-> "report", column |-> m.column,
                   change_type |-> m.change_type, value |-> m.value,
                   original_stats |-> original_stats,
                   new_stats |-> new_stats,
                   stats_changes |-> StatsChanges(original_stats, new_stats),
                   impact_analysis |-> impact_analysis,
                   rendered |-> Render(impact_analysis),
                   scenario_report |-> "narrative"]]

\* lines 87-130: the new statistics of the modified column and the impact
\* on the other numeric columns of the modified frame
Analyse(h1, modified, orig, m, original_stats, llm_ok) ==
    Report(h1, modified, m, original_stats,
           Stats(modified.data[m.column]),
           ImpactAnalysis(orig, select_dtypes(modified, {"number"}),
                          m.column, m.change_type, m.value,
                          original_stats.mean),
           llm_ok)

\* lines 74-85: the modification is written to modified_df, or the change
\* type is unknown
Apply(h0, modified_df, orig, m, original_stats, llm_ok, h1) ==
    IF m.change_type \notin ChangeTypes
    THEN [heap |-> h0, steps |-> {"baseline"}, modified |-> h0[modified_df],
          llm |-> "not called",
          ret |-> UnknownChangeType(m.column, m.change_type)]
    ELSE Analyse(h1, h1[modified_df], orig, m, original_stats, llm_ok)

\* lines 57-83: validation, baseline statistics, modification
Validated(h0, modified_df, orig, m, llm_ok, valid) ==
    IF valid # "ok"
    THEN [heap |-> h0, steps |-> {}, modified |-> h0[modified_df],
          llm |-> "not called", ret |-> ColumnError(m.column, valid)]
    ELSE Apply(h0, modified_df, orig, m, Stats(orig.data[m.column]), llm_ok,
               SetCol(h0, modified_df, m.column,
                      Modify(h0[modified_df].data[m.column], m.change_type,
                             m.value)))

\* lines 49-50: modified_df and original_df are copies of df
Copied(c1, c2, m, llm_ok) ==
    Validated(c2.heap, c1.ref, c2.heap[c2.ref], m, llm_ok,
              Validate(c2.heap[c1.ref], m.column))

\* run_what_if_scenario(df, modifications); llm_ok: the analyzer chain
\* answers.  Returns the heap, the returned value ret, and for the record
\* the steps that were executed, the cells of modified_df at the end and the
\* fate of the analyzer call.
run_what_if_scenario(h, df, m, llm_ok) ==
    Copied(DfCopy(h, df), DfCopy(DfCopy(h, df).heap, df), m, llm_ok)

\* lines 24-32: the stages after cleaning
PipelineStages(c, llm_ok) ==
    IF c.raised
    THEN [heap |-> c.heap, raised |-> TRUE, stage |-> "clean",
          llm |-> "not called"]
    ELSE IF ProfileRaises(c.heap[c.ref])
    THEN [heap |-> c.heap, raised |-> TRUE, stage |-> "profile",
          llm |-> "not called"]
    ELSE IF ~llm_ok
    THEN [heap |-> c.heap, raised |-> TRUE, stage |-> "analyze",
          llm |-> "failed"]
    ELSE [heap |-> c.heap, raised |-> FALSE, insights |-> "narrative",
          cleaned_df |-> c.ref, llm |-> "ok"]

\* run_pipeline(df): no try/except, an exception of any stage escapes.  The
\* profile only feeds the prompt of the analyzer chain.
run_pipeline(h, df, llm_ok) == PipelineStages(clean_dataframe(h, df), llm_ok)

-----------------------------------------------------------------------------
(* Agent_Cleaning/data_manager.py and cleaning_agent.py *)

\* DataFrameManager(df): _df is a copy of df
DataFrameManager(h, r) == DfCopy(h, r)

\* get_df(): a copy of _df
get_dfNoCopy(h, m) == [heap |-> h, ref |-> m]

get_df(h, m) == DfCopy(h, m)

\* update_df(new_df): _df becomes a copy of new_df
update_df(h, new_df) == DfCopy(h, new_df)

\* Series.mode() of a numeric column: the most frequent present values,
\* sorted; empty when all are missing
ModeNum(cells) ==
    SelectSeq(SortVals(DropNa(cells)),
              LAMBDA a : \A j \in 1..Len(cells) :
                             CountOf(cells, cells[j]) <= CountOf(cells, a)
                                 \/ IsNaN(cells[j]))

\* lines 50-55: the fill value of a strategy; mean and median of an object
\* column raise, as does mode()[0] of a column with no present cell
FillValue(f, column_name, strategy) ==
    IF f.dtype[column_name] = "number"
    THEN CASE strategy = "mean" ->
                  [raised |-> FALSE, value |-> Mean(f.data[column_name])]
           [] strategy = "median" ->
                  [raised |-> FALSE, value |-> Median(f.data[column_name])]
           [] strategy = "mode" ->
                  IF ModeNum(f.data[column_name]) = <<>>
                  THEN [raised |-> TRUE]
                  ELSE [raised |-> FALSE,
                        value |-> ModeNum(f.data[column_name])[1]]
    ELSE IF strategy = "mode" /\ Mode(f.data[column_name]) # <<>>
    THEN [raised |-> FALSE, value |-> Mode(f.data[column_name])[1]]
    ELSE [raised |-> TRUE]

\* line 61: df[column_name] = df[column_name].fillna(fill_value), on the
\* local frame g.ref
Filled(g, column_name, fill_value) ==
    SetCol(g.heap, g.ref, column_name,
           IF g.heap[g.ref].dtype[column_name] = "number"
           THEN FillNum(g.heap[g.ref].data[column_name], fill_value)
           ELSE FillObj(g.heap[g.ref].data[column_name], fill_value))

\* lines 63-64: the manager is updated with the local frame
Updated(u, given) ==
    [heap |-> u.heap, manager |-> u.ref, updated |-> TRUE, given |-> given,
     kind |-> "ok"]

\* lines 49-66: the fill value is computed and the column is filled; any
\* exception becomes a message
Imputed(h, m, g, column_name, strategy, fill) ==
    IF fill.raised
    THEN [heap |-> h, manager |-> m, updated |-> FALSE, kind |-> "error"]
    ELSE Updated(update_df(Filled(g, column_name, fill.value), g.ref),
                 Filled(g, column_name, fill.value)[g.ref])

\* lines 45-57: the frame is fetched, the column and the strategy are
\* checked
Fetched(h, m, g, column_name, strategy) ==
    IF column_name \notin ColSet(g.heap[g.ref])
    THEN [heap |-> h, manager |-> m, updated |-> FALSE, kind |-> "not found"]
    ELSE IF strategy \notin {"mean", "median", "mode"}
    THEN [heap |-> h, manager |-> m, updated |-> FALSE,
          kind |-> "invalid strategy"]
    ELSE Imputed(h, m, g, column_name, strategy,
                 FillValue(g.heap[g.ref], column_name, strategy))

\* CleaningToolSet.impute_column(column_name, strategy) on the manager
\* whose _df is m
impute_column(h, m, column_name, strategy) ==
    Fetched(h, m, get_df(h, m), column_name, strategy)

-----------------------------------------------------------------------------
(* State *)

VARIABLES
    heap,               \* the DataFrame objects: reference -> frame
    df,                 \* the caller's dataset (a reference), 0 if none
    ret,                \* what the last call returned, or that it raised
    trace,              \* the steps the last what-if call executed and the
                        \* cells of its modified_df when it ended
    uploaded_file,      \* st.file_uploader: <<>> or <<the uploaded frame>>
    analysis_complete,  \* st.session_state.analysis_complete
    cleaned_df,         \* st.session_state.cleaned_df (a reference), 0 unset
    insights,           \* st.session_state.insights
    visualizer_df,      \* the copy held by VisualizerToolSet, 0 unset
    messages,           \* st.session_state.messages
    current_chart,      \* st.session_state.current_chart, 0 is None
    df_manager,         \* DataFrameManager._df (a reference), 0 if none
    frames,             \* the frames the manager's caller holds (references)
    latest              \* the frame last given to the manager, as it was
                        \* when it was given

vars == <<heap, df, ret, trace, uploaded_file, analysis_complete, cleaned_df,
          insights, visualizer_df, messages, current_chart, df_manager,
          frames, latest>>

manager == <<df_manager, frames, latest>>

session == <<uploaded_file, analysis_complete, cleaned_df, insights,
             visualizer_df, messages, current_chart>>

-----------------------------------------------------------------------------
(* Inputs *)

\* the cells of the numeric column x: -1, 0 .. MaxVal, or missing
XVals == {R(i) : i \in (-1)..MaxVal} \cup {NaN}

CVals == {"u", "v", NA}

Seqs(S, n) == [1..n -> S]

\* the second numeric column: 0, 1, 2, ...
YCol(n) == [i \in 1..n |-> R(i - 1)]

\* four-row numeric columns beside the target x = 1, 2, 3, 4, named by
\* their correlation with it: s 1, m -0.6, w 0.2, n 0.086 and k undefined
\* (a constant column)
PoolNames == <<"s", "m", "w", "n", "k">>

PoolCells ==
    [s |-> <<R(0), R(1), R(2), R(3)>>, m |-> <<R(2), R(3), R(0), R(1)>>,
     w |-> <<R(0), R(3), R(2), R(1)>>, n |-> <<R(0), R(2), R(3), R(0)>>,
     k |-> <<R(1), R(1), R(1), R(1)>>]

\* the target x followed by two columns of the pool, in either order
Wide ==
    {Frame(<<"x", PoolNames[i], PoolNames[j]>>,
           [c \in {"x", PoolNames[i], PoolNames[j]} |-> "number"],
           ("x" :> <<R(1), R(2), R(3), R(4)>>)
               @@ (PoolNames[i] :> PoolCells[PoolNames[i]])
               @@ (PoolNames[j] :> PoolCells[PoolNames[j]])) :
        <<i, j>> \in {p \in (1..Len(PoolNames)) \X (1..Len(PoolNames)) :
                         p[1] # p[2]}}

\* a frame with a column of every kind read_csv and its callers produce:
\* x has two missing cells, c two missing cells and a tie of its labels,
\* b is boolean and d holds dates
Mixed ==
    Frame(<<"x", "b", "d", "c">>,
          [x |-> "number", b |-> "bool", d |-> "datetime", c |-> "object"],
          [x |-> <<NaN, R(0), NaN, R(1)>>,
           b |-> <<"True", "False", "True", "True">>,
           d |-> <<"day 1", "day 2", "day 3", "day 4">>,
           c |-> <<"v", "u", NA, NA>>])

\* a frame whose numeric column has one value far from the others
Skewed ==
    Frame(<<"x", "c">>, [x |-> "number", c |-> "object"],
          [x |-> <<R(0), R(0), R(0), R(100)>>, c |-> <<"u", "v", "v", "u">>])

\* the datasets a caller can hold: numeric columns x and y beside an object
\* column c, or an object column c alone, and the frames above
Datasets ==
    Wide \cup {Mixed, Skewed} \cup
    UNION {
      {Frame(<<"x", "y", "c">>,
             [x |-> "number", y |-> "number", c |-> "object"],
             [x |-> xs, y |-> YCol(n), c |-> [i \in 1..n |-> "u"]]) :
          xs \in Seqs(XVals, n)}
      \cup
      {Frame(<<"c">>, [c |-> "object"], [c |-> cs]) : cs \in Seqs(CVals, n)}
      : n \in 1..MaxRows}

\* the percentages of a percentage increase or decrease
PctVals == {R(0), R(10), R(150)}

\* the values of a set-to-value
SetVals == {R(0), R(3)}

\* the values offered for a change type
ModVals(change_type) ==
    IF change_type = "Set to Value" THEN SetVals ELSE PctVals

\* modification requests: the valid ones on x, an unknown change type, a
\* column that is not numeric, a column that does not exist, and both an
\* unknown column and an unknown change type
Modifications ==
    UNION {[column : {"x"}, change_type : {k}, value : ModVals(k)] :
              k \in ChangeTypes}
    \cup [column : {"x"}, change_type : {"Multiply"}, value : {R(10)}]
    \cup [column : {"c", "z"}, change_type : {"Percentage Increase"},
          value : {R(10)}]
    \cup [column : {"z"}, change_type : {"Multiply"}, value : {R(10)}]

\* whether run_what_if_scenario(f, m) gets as far as the analyzer chain
ReachesAnalyzer(f, m) ==
    /\ m.column \in ColSet(f)
    /\ is_numeric_dtype(f, m.column)
    /\ m.change_type \in ChangeTypes

NoTrace == [steps |-> {}, modified |-> <<>>, llm |-> "not called"]

-----------------------------------------------------------------------------
(* The entry points called directly on a dataset *)

Init ==
    /\ df = 1
    /\ \E f \in Datasets : heap = (1 :> f)
    /\ ret = [op |-> "none", kind |-> "none"]
    /\ trace = NoTrace
    /\ uploaded_file = <<>>
    /\ analysis_complete = FALSE
    /\ cleaned_df = 0
    /\ insights = ""
    /\ visualizer_df = 0
    /\ messages = <<>>
    /\ current_chart = 0
    /\ df_manager = 0
    /\ frames = {}
    /\ latest = <<>>

\* the caller drops the previous result before the next call
Held == Collect(heap, {df})

\* cleaned = clean_dataframe(df)
Clean ==
    \E c \in {clean_dataframe(Held, df)} :
        /\ heap' = Collect(c.heap, IF c.raised THEN {df} ELSE {df, c.ref})
        /\ ret' = IF c.raised THEN [op |-> "clean", kind |-> "raised"]
                  ELSE [op |-> "clean", kind |-> "ok", ref |-> c.ref]
        /\ trace' = NoTrace
        /\ UNCHANGED <<df, session, manager>>

\* again = clean_dataframe(cleaned), on the result of the last call
CleanAgain ==
    /\ ret.op = "clean"
    /\ ret.kind = "ok"
    /\ \E c \in {clean_dataframe(heap, ret.ref)} :
          /\ heap' = Collect(c.heap, IF c.raised THEN {df, ret.ref}
                                     ELSE {df, ret.ref, c.ref})
          /\ ret' = IF c.raised
                    THEN [op |-> "clean_again", kind |-> "raised"]
                    ELSE [op |-> "clean_again", kind |-> "ok",
                          first |-> ret.ref, ref |-> c.ref]
    /\ trace' = NoTrace
    /\ UNCHANGED <<df, session, manager>>

\* profile = profile_dataframe(df)
Profile ==
    \E p \in {profile_dataframe(Held[df])} :
        /\ heap' = Held
        /\ ret' = IF p.raised THEN [op |-> "profile", kind |-> "raised"]
                  ELSE [op |-> "profile", kind |-> "ok", profile |-> p]
        /\ trace' = NoTrace
        /\ UNCHANGED <<df, session, manager>>

\* Orchestrator().run_pipeline(df)
Pipeline ==
    \E llm_ok \in BOOLEAN :
    \E r \in {run_pipeline(Held, df, llm_ok)} :
        /\ heap' = Collect(r.heap,
                           IF r.raised THEN {df} ELSE {df, r.cleaned_df})
        /\ ret' = IF r.raised
                  THEN [op |-> "run_pipeline", kind |-> "raised",
                        stage |-> r.stage]
                  ELSE [op |-> "run_pipeline", kind |-> "ok",
                        insights |-> r.insights, ref |-> r.cleaned_df]
        /\ trace' = [NoTrace EXCEPT !.llm = r.llm]
        /\ UNCHANGED <<df, session, manager>>

\* Orchestrator().run_what_if_scenario(df, m)
WhatIf ==
    \E m \in Modifications :
    \E llm_ok \in (IF ReachesAnalyzer(heap[df], m) THEN BOOLEAN ELSE {TRUE}) :
    \E r \in {run_what_if_scenario(Held, df, m, llm_ok)} :
        /\ heap' = Collect(r.heap, {df})
        /\ ret' = [op |-> "run_what_if", request |-> m] @@ r.ret
        /\ trace' = [steps |-> r.steps, modified |-> <<r.modified>>,
                     llm |-> r.llm]
        /\ UNCHANGED <<df, session, manager>>

Next == Clean \/ CleanAgain \/ Profile \/ Pipeline \/ WhatIf

Spec == Init /\ [][Next]_vars

-----------------------------------------------------------------------------
(* app.py: one Streamlit session.  Every event reruns the whole script.    *)

\* the files a user uploads: two rows, numeric x and y and an object column
\* c with a missing cell; or an object column alone
Uploads ==
    {Frame(<<"x", "y", "c">>,
           [x |-> "number", y |-> "number", c |-> "object"],
           [x |-> <<v, R(1)>>, y |-> <<R(0), R(1)>>, c |-> <<"u", NA>>]) :
        v \in {R(-1), NaN}}
    \cup {Frame(<<"c">>, [c |-> "object"], [c |-> cs]) :
             cs \in {<<NA, NA>>, <<"u", "v">>}}

\* the session as one value
Session ==
    [heap |-> heap, uploaded_file |-> uploaded_file,
     analysis_complete |-> analysis_complete, cleaned_df |-> cleaned_df,
     insights |-> insights, visualizer_df |-> visualizer_df,
     messages |-> messages, current_chart |-> current_chart]

\* line 29: the guard of the pipeline block
PipelineGuardNoFlag(s) == s.uploaded_file # <<>>

PipelineGuard(s) == s.uploaded_file # <<>> /\ ~s.analysis_complete

\* lines 36-41: the results are stored; the analysis is complete when the
\* visualizer agent could be made around its own copy v of the dataset
Stored(s, r, v, vis_ok) ==
    IF r.raised THEN s
    ELSE IF ~vis_ok
    THEN [s EXCEPT !.heap = r.heap, !.cleaned_df = r.cleaned_df,
                   !.insights = r.insights]
    ELSE [s EXCEPT !.heap = v.heap, !.cleaned_df = r.cleaned_df,
                   !.insights = r.insights, !.visualizer_df = v.ref,
                   !.analysis_complete = TRUE]

\* lines 32-40: the file is read into a new frame n and the pipeline runs
Piped(s, r, vis_ok) == Stored(s, r, DfCopy(r.heap, r.cleaned_df), vis_ok)

\* lines 29-45: the pipeline block; llm_ok: the analyzer chain answers,
\* vis_ok: create_visualizer_agent succeeds.  Any exception is shown and the
\* assignments made before it stay.
PipelineBlock(s, llm_ok, vis_ok) ==
    IF ~PipelineGuard(s) THEN s
    ELSE Piped(s, run_pipeline((NewRef(s.heap) :> s.uploaded_file[1])
                                   @@ s.heap,
                               NewRef(s.heap), llm_ok),
               vis_ok)

\* the outcomes of the two external calls of the pipeline block, which are
\* only made when the block runs
PipelineOutcomes(s) == IF PipelineGuard(s) THEN BOOLEAN ELSE {TRUE}

\* line 72: the chart of an earlier turn is cleared before the invocation
ClearChartKept(chart) == chart

ClearChart(chart) == 0

\* lines 70-110: one chat turn; plotted: a plotting tool stored a chart
\* during the invocation, ok: the invocation returned.  A chart is named by
\* the position of the prompt of the turn that made it.
ChatInput(s, plotted, ok) ==
    LET turn == Len(s.messages) + 1
        asked == Append(s.messages,
                        [role |-> "user", chart |-> 0, text |-> "prompt"])
        chart == IF plotted THEN turn ELSE ClearChart(s.current_chart)
    IN  IF ~ok
        THEN [s EXCEPT !.messages = asked, !.current_chart = chart]
        ELSE [s EXCEPT !.current_chart = 0,
                       !.messages = Append(asked,
                           [role |-> "assistant", chart |-> chart,
                            text |-> "response"])]

\* line 118: the columns offered by the what-if tab
numerical_columns(s) == select_dtypes(s.heap[s.cleaned_df], {"number"})

\* lines 170-186: the modification is applied once more, to a copy c of
\* the canonical dataset, for the impact summary
ImpactSummary(s, m, kind, c) ==
    [session |-> [s EXCEPT !.heap =
                     SetCol(c.heap, c.ref, m.column,
                            Modify(c.heap[c.ref].data[m.column],
                                   m.change_type, m.value))],
     kind |-> kind]

\* lines 165-166: the report r is rendered
Rendered(s, m, r) ==
    ImpactSummary(s, m, r.ret.kind, DfCopy(r.heap, s.cleaned_df))

\* lines 151-186: the button of the what-if tab
RunScenario(s, m, llm_ok) ==
    Rendered(s, m, run_what_if_scenario(s.heap, s.cleaned_df, m, llm_ok))

\* the end of a script run: the session state is kept, locals are dropped
Keep(s) ==
    /\ heap' = Collect(s.heap, {s.cleaned_df, s.visualizer_df})
    /\ uploaded_file' = s.uploaded_file
    /\ analysis_complete' = s.analysis_complete
    /\ cleaned_df' = s.cleaned_df
    /\ insights' = s.insights
    /\ visualizer_df' = s.visualizer_df
    /\ messages' = s.messages
    /\ current_chart' = s.current_chart

\* a new session: lines 19-24 have run, nothing is uploaded
SessionInit ==
    /\ heap = <<>>
    /\ df = 0
    /\ ret = [op |-> "none", kind |-> "none"]
    /\ trace = NoTrace
    /\ uploaded_file = <<>>
    /\ analysis_complete = FALSE
    /\ cleaned_df = 0
    /\ insights = ""
    /\ visualizer_df = 0
    /\ messages = <<>>
    /\ current_chart = 0
    /\ df_manager = 0
    /\ frames = {}
    /\ latest = <<>>

\* the user picks a file in the uploader
UploadFile ==
    \E f \in Uploads :
    \E llm_ok, vis_ok \in
           PipelineOutcomes([Session EXCEPT !.uploaded_file = <<f>>]) :
        /\ uploaded_file # <<f>>
        /\ Keep(PipelineBlock([Session EXCEPT !.uploaded_file = <<f>>],
                              llm_ok, vis_ok))
        /\ UNCHANGED <<df, ret, trace, manager>>

\* the user removes the file from the uploader
RemoveFile ==
    /\ uploaded_file # <<>>
    /\ Keep(PipelineBlock([Session EXCEPT !.uploaded_file = <<>>],
                          TRUE, TRUE))
    /\ UNCHANGED <<df, ret, trace, manager>>

\* any other interaction while the analysis is not complete reruns the
\* script, and with it the pipeline
Rerun ==
    \E llm_ok \in BOOLEAN, vis_ok \in BOOLEAN :
        /\ uploaded_file # <<>>
        /\ ~analysis_complete
        /\ Keep(PipelineBlock(Session, llm_ok, vis_ok))
        /\ UNCHANGED <<df, ret, trace, manager>>

\* the user sends a prompt in the chat tab
Chat ==
    \E plotted \in BOOLEAN, ok \in BOOLEAN :
    \E llm_ok, vis_ok \in PipelineOutcomes(Session) :
        /\ analysis_complete
        /\ Len(messages) + 2 <= MaxMessages
        /\ Keep(ChatInput(PipelineBlock(Session, llm_ok, vis_ok),
                          plotted, ok))
        /\ UNCHANGED <<df, ret, trace, manager>>

\* the user presses the button of the what-if tab
Scenario ==
    /\ analysis_complete
    /\ \E answer \in BOOLEAN :
       \E llm_ok, vis_ok \in PipelineOutcomes(Session) :
       \E s \in {PipelineBlock(Session, llm_ok, vis_ok)} :
       \E column \in {numerical_columns(s)[i] :
                         i \in 1..Len(numerical_columns(s))} :
       \E kind \in ChangeTypes :
       \E v \in ModVals(kind) :
       \E r \in {RunScenario(s, [column |-> column, change_type |-> kind,
                                 value |-> v], answer)} :
           /\ Keep(r.session)
           /\ ret' = [op |-> "scenario", kind |-> r.kind]
    /\ UNCHANGED <<df, trace, manager>>

SessionNext == UploadFile \/ RemoveFile \/ Rerun \/ Chat \/ Scenario

SessionSpec == SessionInit /\ [][SessionNext]_vars

-----------------------------------------------------------------------------
(* Agent_Cleaning: a DataFrameManager, the cleaning tool and their caller *)

\* the frames given to the manager: a numeric column x with or without a
\* missing cell and an object column c with a missing cell
ManagerFrames ==
    {Frame(<<"x", "c">>, [x |-> "number", c |-> "object"],
           [x |-> <<v, R(1)>>, c |-> <<NA, "u">>]) : v \in {R(0), NaN}}

\* the cells a caller writes into a column of a frame it holds
Overwritten == [x |-> <<R(5), R(5)>>]

\* the objects in use: the caller's frames and the manager's
Live(h, held, m) == Collect(h, held \cup {m})

\* df_manager = DataFrameManager(df) has run on the caller's frame 1
ManagerInit ==
    /\ \E f \in ManagerFrames :
          \E c \in {DataFrameManager(1 :> f, 1)} :
              /\ heap = c.heap
              /\ df_manager = c.ref
              /\ latest = f
    /\ frames = {1}
    /\ df = 0
    /\ ret = [op |-> "DataFrameManager", kind |-> "ok"]
    /\ trace = NoTrace
    /\ uploaded_file = <<>>
    /\ analysis_complete = FALSE
    /\ cleaned_df = 0
    /\ insights = ""
    /\ visualizer_df = 0
    /\ messages = <<>>
    /\ current_chart = 0

\* frame = df_manager.get_df()
GetDf ==
    /\ Cardinality(frames) < MaxFrames
    /\ \E c \in {get_df(heap, df_manager)} :
          /\ heap' = c.heap
          /\ frames' = frames \cup {c.ref}
          /\ ret' = [op |-> "get_df", kind |-> "ok", ref |-> c.ref]
    /\ UNCHANGED <<df, trace, session, df_manager, latest>>

\* df_manager.update_df(frame), for a frame the caller holds
UpdateDf ==
    \E r \in frames :
    \E c \in {update_df(heap, r)} :
        /\ heap' = Live(c.heap, frames, c.ref)
        /\ df_manager' = c.ref
        /\ latest' = heap[r]
        /\ ret' = [op |-> "update_df", kind |-> "ok"]
        /\ UNCHANGED <<df, trace, session, frames>>

\* frame[col] = cells: the caller writes into a frame it holds
Mutate ==
    \E r \in frames, col \in DOMAIN Overwritten :
        /\ heap[r].data[col] # Overwritten[col]
        /\ heap' = SetCol(heap, r, col, Overwritten[col])
        /\ ret' = [op |-> "mutate", kind |-> "ok"]
        /\ UNCHANGED <<df, trace, session, manager>>

\* the caller lets go of a frame
Drop ==
    \E r \in frames :
        /\ frames' = frames \ {r}
        /\ heap' = Live(heap, frames \ {r}, df_manager)
        /\ ret' = [op |-> "drop", kind |-> "ok"]
        /\ UNCHANGED <<df, trace, session, df_manager, latest>>

\* CleaningToolSet(df_manager).impute_column(column_name, strategy)
ImputeColumn ==
    \E column_name \in {"x", "c", "z"} :
    \E strategy \in {"mean", "median", "mode", "max"} :
    \E r \in {impute_column(heap, df_manager, column_name, strategy)} :
        /\ heap' = Live(r.heap, frames, r.manager)
        /\ df_manager' = r.manager
        /\ latest' = IF r.updated THEN r.given ELSE latest
        /\ ret' = [op |-> "impute_column", kind |-> r.kind]
        /\ UNCHANGED <<df, trace, session, frames>>

ManagerNext == GetDf \/ UpdateDf \/ Mutate \/ Drop \/ ImputeColumn

ManagerSpec == ManagerInit /\ [][ManagerNext]_vars

-----------------------------------------------------------------------------
(* Properties of the entry points *)

\* the last call was run_what_if_scenario
IsWhatIf == ret.op = "run_what_if"

\* the target column of the last what-if request exists and is numeric
TargetValid ==
    /\ ret.request.column \in ColSet(heap[df])
    /\ is_numeric_dtype(heap[df], ret.request.column)

\* C1: no call of clean_dataframe, profile_dataframe or run_what_if_scenario
\* changes the dataset object that was passed to it: after every call the
\* argument is the same object with the same columns and cells.
C1_ArgumentNeverMutated ==
    [][df' = df /\ heap'[df'] = heap[df]]_vars

\* a what-if call has modified its copy, which now differs from the argument
C1_Witness ==
    /\ IsWhatIf
    /\ "modify" \in trace.steps
    /\ trace.modified[1] # heap[df]

\* C3: a what-if request whose target column is missing or not numeric
\* returns a validation error naming the column and the problem, and no
\* step of the computation has run: nothing was modified.
C3_BadColumnRejectedFirst ==
    (IsWhatIf /\ ~TargetValid) =>
        /\ ret.kind = "validation_error"
        /\ ret.names = ret.request.column
        /\ ret.problem = (IF ret.request.column \in ColSet(heap[df])
                          THEN "not numerical" ELSE "not found")
        /\ trace.steps = {}
        /\ trace.llm = "not called"
        /\ trace.modified[1] = heap[df]

\* a request on the object column c of a frame that has it was rejected
C3_Witness ==
    /\ IsWhatIf
    /\ ret.request.column = "c"
    /\ "c" \in ColSet(heap[df])
    /\ ret.kind = "validation_error"

\* C4 as stated: an unknown change type is rejected before any computation,
\* with a message naming the unknown kind.
C4_UnknownKindBeforeAnyComputation ==
    (IsWhatIf /\ ret.request.change_type \notin ChangeTypes) =>
        /\ ret.kind = "validation_error"
        /\ ret.names = ret.request.change_type
        /\ trace.steps = {}

\* C4 amended: an unknown change type is always answered by a validation
\* message, never by an exception.  On an existing numeric column the
\* message names the unknown kind and only the baseline statistics have been
\* computed by then; otherwise the message names the column and nothing has
\* been computed.  In both cases there is no modification, no new
\* statistics, no correlation, no profiling and no analyzer call.
C4_UnknownKindRejected ==
    (IsWhatIf /\ ret.request.change_type \notin ChangeTypes) =>
        /\ ret.kind = "validation_error"
        /\ TargetValid =>
              /\ ret.names = ret.request.change_type
              /\ ret.problem = "unknown change type"
              /\ trace.steps = {"baseline"}
        /\ ~TargetValid =>
              /\ ret.names = ret.request.column
              /\ trace.steps = {}
        /\ trace.llm = "not called"
        /\ trace.modified[1] = heap[df]

\* the change type Multiply was requested on the numeric column x
C4_Witness ==
    /\ IsWhatIf
    /\ TargetValid
    /\ ret.request.change_type = "Multiply"
    /\ ret.kind = "validation_error"

\* C5: when the analyzer call fails, the caller still receives the numeric
\* sections (what-if) or a result (pipeline); only the narrative is missing.
C5_DegradedResultOnAnalyzerFailure ==
    (trace.llm = "failed") =>
        /\ ret.kind # "raised"
        /\ IsWhatIf =>
              {"original_stats", "new_stats", "stats_changes",
               "impact_analysis"} \subseteq DOMAIN ret

\* C6: no entry point lets an exception escape.
C6_NoExceptionEscapes == ret.kind # "raised"

\* the baseline mean of the target of the last what-if request is 0 and some
\* other numeric column is correlated with it beyond the threshold
ZeroMeanCorrelated ==
    LET f == heap[df]
        col == ret.request.column
        nums == select_dtypes(f, {"number"})
    IN  /\ Mean(f.data[col]) = R(0)
        /\ \E i \in 1..Len(nums) :
              /\ nums[i] # col
              /\ SAbsGt(Corr(f.data[col], f.data[nums[i]]), Frac(1, 10))

\* C7: set-to-value on a column of baseline mean 0 with a correlated column
\* never yields a report; the run fails or flags the condition.
C7_ZeroMeanSetToValueFails ==
    (/\ IsWhatIf
     /\ TargetValid
     /\ ret.request.change_type = "Set to Value"
     /\ ZeroMeanCorrelated) => ret.kind # "report"

\* C8: the modified copy holds, in the target column, every original cell
\* times (1 + p/100) for an increase, times (1 - p/100) for a decrease, and
\* v for set-to-value; every other column is as in the original; hence an
\* increase by 10 percent multiplies the mean by 1.10.
C8_ModificationApplied ==
    (IsWhatIf /\ "modify" \in trace.steps) =>
        LET f == heap[df]
            g == trace.modified[1]
            col == ret.request.column
            kind == ret.request.change_type
            v == ret.request.value
        IN  /\ g.cols = f.cols
            /\ g.dtype = f.dtype
            /\ \A c \in ColSet(f) \ {col} : g.data[c] = f.data[c]
            /\ Len(g.data[col]) = Len(f.data[col])
            /\ \A i \in 1..Len(f.data[col]) :
                  /\ kind = "Percentage Increase" =>
                        RMul(g.data[col][i], R(100))
                            = RMul(f.data[col][i], RAdd(R(100), v))
                  /\ kind = "Percentage Decrease" =>
                        RMul(g.data[col][i], R(100))
                            = RMul(f.data[col][i], RSub(R(100), v))
                  /\ kind = "Set to Value" => g.data[col][i] = v
            /\ (kind = "Percentage Increase" /\ v = R(10)) =>
                  /\ RMul(Mean(g.data[col]), R(10))
                         = RMul(Mean(f.data[col]), R(11))
                  /\ ret.kind = "report" =>
                         RMul(ret.new_stats.mean, R(10))
                             = RMul(ret.original_stats.mean, R(11))

\* a 10 percent increase was reported on a column whose mean is not 0
C8_Witness ==
    /\ IsWhatIf
    /\ ret.kind = "report"
    /\ ret.request.change_type = "Percentage Increase"
    /\ ret.request.value = R(10)
    /\ IsFinite(ret.original_stats.mean)
    /\ ret.original_stats.mean # R(0)
    /\ ret.new_stats.mean # ret.original_stats.mean

\* C9: every reported percentage change is (new - old) / |old| * 100 when
\* old # 0 and is 0 when old = 0, negative old values included; old 50 and
\* new 55 give 10.  (The standard deviation is a square root: its change c
\* satisfies (1 + c/100) * old = new, checked on the squares.)
C9_PercentageChangeConvention ==
    /\ Pct(R(50), R(55)) = R(10)
    /\ (IsWhatIf /\ ret.kind = "report") =>
          /\ \A s \in StatNames \ {"std"} :
                LET old == ret.original_stats[s]
                    new == ret.new_stats[s]
                    c == ret.stats_changes[s]
                IN  (IsFinite(old) /\ IsFinite(new)) =>
                        IF old = R(0) THEN c = R(0)
                        ELSE RMul(c, RAbs(old)) = RMul(RSub(new, old), R(100))
          /\ LET old == ret.original_stats.std
                 new == ret.new_stats.std
                 c == ret.stats_changes.std
                 k == RAdd(R(1), RDiv(c, R(100)))
             IN  (~SIsNaN(old) /\ ~SIsNaN(new)) =>
                     IF old.sg = 0 THEN c = R(0)
                     ELSE /\ ~RLt(k, R(0))
                          /\ RMul(RMul(k, k), old.sq) = new.sq

\* a change was reported for a statistic whose old value is negative
C9_Witness ==
    /\ IsWhatIf
    /\ ret.kind = "report"
    /\ RLt(ret.original_stats.mean, R(0))
    /\ RLt(ret.stats_changes.mean, R(0))

\* C10: a percentage increase or decrease by 0 reports new statistics equal
\* to the baseline and five percentage changes equal to 0.
C10_ZeroModificationChangesNothing ==
    (/\ IsWhatIf
     /\ ret.kind = "report"
     /\ ret.request.change_type \in {"Percentage Increase",
                                     "Percentage Decrease"}
     /\ ret.request.value = R(0)) =>
        /\ ret.new_stats = ret.original_stats
        /\ \A s \in StatNames : ret.stats_changes[s] = R(0)

\* C11: the columns of the impact set of a report are exactly the numeric
\* columns of the dataset, other than the target, whose correlation r with
\* the target on the unmodified data satisfies r * r * 100 > 1; each is
\* listed once, with that correlation; a column whose correlation is at
\* most 0.1 in absolute value or undefined is absent, as is the target.
C11_ImpactSetIsMaterialColumns ==
    (IsWhatIf /\ ret.kind = "report") =>
        LET f == heap[df]
            col == ret.request.column
            n == Len(ret.impact_analysis)
            r(c) == Corr(f.data[col], f.data[c])
        IN  /\ {ret.impact_analysis[i].column : i \in 1..n}
                   = {c \in ColSet(f) \ {col} :
                         /\ f.dtype[c] = "number"
                         /\ ~SIsNaN(r(c))
                         /\ RGt(RMul(r(c).sq, R(100)), R(1))}
            /\ \A i, j \in 1..n :
                   ret.impact_analysis[i].column = ret.impact_analysis[j].column
                       => i = j
            /\ \A i \in 1..n :
                   ret.impact_analysis[i].correlation
                       = r(ret.impact_analysis[i].column)

\* a report on a frame with the perfectly correlated column s and the
\* negligibly correlated column n lists s alone
C11_Witness ==
    /\ IsWhatIf
    /\ ret.kind = "report"
    /\ {"s", "n"} \subseteq ColSet(heap[df])
    /\ Len(ret.impact_analysis) = 1
    /\ ret.impact_analysis[1].column = "s"

\* C12: every entry of the impact set of a report carries the estimate
\* r * p for an increase by p, r * (-p) for a decrease by p, and
\* r * ((v - mean) * 100 / mean) for set-to-value v on a baseline mean other
\* than 0, r being the correlation of the entry (the estimate is compared by
\* sign and square, r being a square root); a correlation of 1 under an
\* increase by 20 gives 20.
C12_EstimatedImpactFormula ==
    /\ EstimatedImpact(Surd(1, R(1)), "Percentage Increase", R(20), R(5))
           = Surd(1, RMul(R(20), R(20)))
    /\ (IsWhatIf /\ ret.kind = "report") =>
          LET kind == ret.request.change_type
              v == ret.request.value
              mean == ret.original_stats.mean
              factor == CASE kind = "Percentage Increase" -> v
                          [] kind = "Percentage Decrease" -> RNeg(v)
                          [] kind = "Set to Value" ->
                                 RDiv(RMul(RSub(v, mean), R(100)), mean)
          IN  (kind = "Set to Value" => (IsFinite(mean) /\ mean # R(0))) =>
                  \A i \in 1..Len(ret.impact_analysis) :
                      LET e == ret.impact_analysis[i]
                      IN  /\ e.estimated_impact.sg
                                 = e.correlation.sg * RSgn(factor)
                          /\ e.estimated_impact.sq
                                 = RMul(e.correlation.sq, RMul(factor, factor))

\* a set-to-value report on a column of mean 5/2 with a negatively
\* correlated column in its impact set
C12_Witness ==
    /\ IsWhatIf
    /\ ret.kind = "report"
    /\ ret.request.change_type = "Set to Value"
    /\ ret.original_stats.mean = Frac(5, 2)
    /\ \E i \in 1..Len(ret.impact_analysis) :
          /\ ret.impact_analysis[i].correlation.sg < 0
          /\ ret.impact_analysis[i].estimated_impact.sg # 0

\* the correlation recorded in a report for the column c of its impact set
CorrelationOf(c) ==
    LET i == CHOOSE k \in 1..Len(ret.impact_analysis) :
                 ret.impact_analysis[k].column = c
    IN  ret.impact_analysis[i].correlation

\* C13: the items listed in a report are in order of descending absolute
\* correlation, whatever the column order of the dataset.
C13_ListedByDescendingCorrelation ==
    (IsWhatIf /\ ret.kind = "report") =>
        \A i, j \in 1..Len(ret.rendered) :
            i < j => ~RLt(CorrelationOf(ret.rendered[i].column).sq,
                          CorrelationOf(ret.rendered[j].column).sq)

\* the cells of a column that are not missing
Present(f, col) ==
    {i \in 1..NRows(f) : ~IsNull(f, col, f.data[col][i])}

\* m is the median of the present cells of the numeric column col: at most
\* half of them are below m, at most half above, and m is midway between
\* the nearest cell at or below it and the nearest cell at or above it
IsMedianOf(m, f, col) ==
    LET P == Present(f, col)
        below == {i \in P : RLt(f.data[col][i], m)}
        above == {i \in P : RGt(f.data[col][i], m)}
    IN  /\ 2 * Cardinality(below) <= Cardinality(P)
        /\ 2 * Cardinality(above) <= Cardinality(P)
        /\ \E i, j \in P :
              /\ ~RGt(f.data[col][i], m)
              /\ \A k \in P : RGt(f.data[col][k], m)
                     \/ ~RGt(f.data[col][k], f.data[col][i])
              /\ ~RLt(f.data[col][j], m)
              /\ \A k \in P : RLt(f.data[col][k], m)
                     \/ ~RLt(f.data[col][k], f.data[col][j])
              /\ RMul(m, R(2)) = RAdd(f.data[col][i], f.data[col][j])

\* v is the first mode of the object column col: no label is more frequent,
\* and no equally frequent label sorts before it
IsFirstModeOf(v, f, col) ==
    \E a \in 1..Len(CatVals) :
        /\ CatVals[a] = v
        /\ \A b \in 1..Len(CatVals) :
              /\ CountOf(f.data[col], CatVals[b]) <= CountOf(f.data[col], v)
              /\ CountOf(f.data[col], CatVals[b]) = CountOf(f.data[col], v)
                     => a <= b

\* C14: on a dataset each of whose columns has a present cell, clean
\* returns a frame with the same columns and rows and no missing cell, in
\* which every present cell is kept, every missing numeric cell holds the
\* median of the present cells of its column and every missing cell of
\* another column holds the first mode of its column.
C14_CleanFillsMedianAndMode ==
    (/\ ret.op = "clean"
     /\ \A col \in ColSet(heap[df]) : Present(heap[df], col) # {}) =>
        /\ ret.kind = "ok"
        /\ LET f == heap[df]
               g == heap[ret.ref]
           IN  /\ g.cols = f.cols
               /\ g.dtype = f.dtype
               /\ \A col \in ColSet(f) :
                     /\ Len(g.data[col]) = Len(f.data[col])
                     /\ Present(g, col) = 1..NRows(f)
                     /\ \A i \in Present(f, col) :
                            g.data[col][i] = f.data[col][i]
                     /\ \A i \in (1..NRows(f)) \ Present(f, col) :
                            IF f.dtype[col] = "number"
                            THEN IsMedianOf(g.data[col][i], f, col)
                            ELSE IsFirstModeOf(g.data[col][i], f, col)

\* the frame with two missing numbers and two missing labels behind a tie
\* has been cleaned
C14_Witness ==
    /\ ret.op = "clean"
    /\ ret.kind = "ok"
    /\ heap[df] = Mixed
    /\ heap[ret.ref].data.x = <<Frac(1, 2), R(0), Frac(1, 2), R(1)>>
    /\ heap[ret.ref].data.c = <<"v", "u", "u", "u">>

\* C15: cleaning the result of clean gives the same frame, cell for cell.
C15_CleanIdempotent ==
    (ret.op = "clean_again") =>
        /\ ret.kind = "ok"
        /\ heap[ret.ref] = heap[ret.first]

\* a frame that clean had changed has been cleaned again
C15_Witness ==
    /\ ret.op = "clean_again"
    /\ ret.kind = "ok"
    /\ heap[ret.first] # heap[df]
    /\ ret.ref # ret.first

\* C16: a profile places every column of the dataset in exactly one of the
\* numeric partition (basic_statistics, outliers_count) and the categorical
\* partition (categorical_analysis).
C16_ProfilePartitionsColumns ==
    (ret.op = "profile" /\ ret.kind = "ok") =>
        /\ DOMAIN ret.profile.outliers_count
               = DOMAIN ret.profile.basic_statistics
        /\ (DOMAIN ret.profile.basic_statistics)
               \cap (DOMAIN ret.profile.categorical_analysis) = {}
        /\ (DOMAIN ret.profile.basic_statistics)
               \cup (DOMAIN ret.profile.categorical_analysis)
               = ColSet(heap[df])

\* C17: the profile of a dataset without numeric columns succeeds with an
\* empty numeric summary and empty outlier counts, and the profile of a
\* dataset without categorical columns succeeds with an empty categorical
\* mapping.
C17_EmptyPartitionGivesEmptyMapping ==
    (ret.op = "profile") =>
        /\ select_dtypes(heap[df], {"number"}) = <<>> =>
              /\ ret.kind = "ok"
              /\ DOMAIN ret.profile.basic_statistics = {}
              /\ DOMAIN ret.profile.outliers_count = {}
        /\ select_dtypes(heap[df], {"object", "category"}) = <<>> =>
              /\ ret.kind = "ok"
              /\ DOMAIN ret.profile.categorical_analysis = {}

\* the k-th smallest of the present cells of a numeric column
Kth(cells, k) ==
    LET P == {i \in 1..Len(cells) : ~IsNaN(cells[i])}
    IN  cells[CHOOSE i \in P :
                  /\ Cardinality({j \in P : RLt(cells[j], cells[i])}) < k
                  /\ k <= Cardinality({j \in P : ~RGt(cells[j], cells[i])})]

\* the quartile num/4 of n > 0 present cells, by linear interpolation
\* between the order statistics around position (n - 1) * num / 4
Quartile(cells, n, num) ==
    LET lo == ((n - 1) * num) \div 4
        rest == ((n - 1) * num) % 4
    IN  IF rest = 0 THEN Kth(cells, lo + 1)
        ELSE RAdd(Kth(cells, lo + 1),
                  RMul(Frac(rest, 4),
                       RSub(Kth(cells, lo + 2), Kth(cells, lo + 1))))

\* the number of present cells strictly outside the fences
\* Q1 - 1.5 * (Q3 - Q1) and Q3 + 1.5 * (Q3 - Q1)
Outliers(cells, Q1, Q3) ==
    Cardinality({i \in 1..Len(cells) :
        /\ ~IsNaN(cells[i])
        /\ \/ RLt(RMul(cells[i], R(2)), RSub(RMul(Q1, R(5)), RMul(Q3, R(3))))
           \/ RGt(RMul(cells[i], R(2)), RSub(RMul(Q3, R(5)), RMul(Q1, R(3))))})

\* C18: the outlier count of every numeric column of a profile is the
\* number of present cells x with x < Q1 - 1.5 * IQR or x > Q3 + 1.5 * IQR,
\* Q1 and Q3 interpolated linearly on the sorted present cells; it is 0
\* when every present cell lies within [Q1, Q3], and 1 for the salaries
\* 30000, 32000, 31000, 1000000, 33000.
C18_OutlierCountIsIQRRule ==
    /\ OutlierCount(<<R(30000), R(32000), R(31000), R(1000000), R(33000)>>)
           = 1
    /\ (ret.op = "profile" /\ ret.kind = "ok") =>
          \A c \in DOMAIN ret.profile.outliers_count :
              LET cells == heap[df].data[c]
                  n == Len(DropNa(cells))
              IN  IF n = 0 THEN ret.profile.outliers_count[c] = 0
                  ELSE /\ ret.profile.outliers_count[c]
                              = Outliers(cells, Quartile(cells, n, 1),
                                         Quartile(cells, n, 3))
                       /\ (\A i \in 1..Len(cells) :
                               IsNaN(cells[i])
                                   \/ (/\ ~RLt(cells[i], Quartile(cells, n, 1))
                                       /\ ~RGt(cells[i], Quartile(cells, n, 3))))
                              => ret.profile.outliers_count[c] = 0

\* the profile of the frame with one far value counts one outlier
C18_Witness ==
    /\ ret.op = "profile"
    /\ ret.kind = "ok"
    /\ heap[df] = Skewed
    /\ ret.profile.outliers_count.x = 1

\* C19: every item listed in a report is labelled Strong iff its
\* correlation r has r * r > 0.49, Moderate iff 0.09 < r * r <= 0.49 and Weak
\* otherwise, positive iff r > 0 and negative iff r < 0; the list follows
\* the impact set item by item, and the statistics of the report are those
\* of the original and of the modified column.
C19_LabelsFollowCorrelation ==
    (IsWhatIf /\ ret.kind = "report") =>
        /\ Len(ret.rendered) = Len(ret.impact_analysis)
        /\ \A i \in 1..Len(ret.rendered) :
              LET item == ret.rendered[i]
                  r == ret.impact_analysis[i].correlation
                  sq100 == RMul(r.sq, R(100))
              IN  /\ item.column = ret.impact_analysis[i].column
                  /\ item.correlation_strength = "Strong" <=> RGt(sq100, R(49))
                  /\ item.correlation_strength = "Moderate"
                         <=> (RGt(sq100, R(9)) /\ ~RGt(sq100, R(49)))
                  /\ item.correlation_strength
                         \in {"Strong", "Moderate", "Weak"}
                  /\ item.direction = "positive" <=> r.sg > 0
                  /\ item.direction = "negative" <=> r.sg < 0
        /\ ret.original_stats = Stats(heap[df].data[ret.request.column])
        /\ ret.new_stats = Stats(trace.modified[1].data[ret.request.column])

\* a report lists a moderate negative and a weak positive correlation
C19_Witness ==
    /\ IsWhatIf
    /\ ret.kind = "report"
    /\ \E i, j \in 1..Len(ret.rendered) :
          /\ ret.rendered[i].correlation_strength = "Moderate"
          /\ ret.rendered[i].direction = "negative"
          /\ ret.rendered[j].correlation_strength = "Weak"
          /\ ret.rendered[j].direction = "positive"

-----------------------------------------------------------------------------
(* Properties of the session *)

\* C2: once analysis_complete is set, no event (upload, removal, rerun, chat
\* turn, scenario run) resets it, reassigns st.session_state.cleaned_df or
\* changes a cell of the canonical dataset, so every scenario starts from
\* the same values.
C2_CanonicalDatasetFrozen ==
    [][analysis_complete =>
          /\ analysis_complete'
          /\ cleaned_df' = cleaned_df
          /\ heap'[cleaned_df'] = heap[cleaned_df]]_vars

\* a scenario has been reported in a completed session while another file
\* sits in the uploader and the chat has been used
C2_Witness ==
    /\ analysis_complete
    /\ ret.op = "scenario"
    /\ ret.kind = "report"
    /\ messages # <<>>
    /\ uploaded_file # <<>>
    /\ select_dtypes(uploaded_file[1], {"number"}) = <<>>

-----------------------------------------------------------------------------
(* Properties of the DataFrameManager *)

\* C20: after every call and every write of the caller into a frame it
\* holds, the manager's frame is the frame last given to it, as it was when
\* it was given, and is none of the caller's objects; what get_df returns
\* is equal to it; the frame last given changes only in update_df, called
\* directly or by impute_column.
C20_ManagerIsolatesItsFrame ==
    [][/\ heap'[df_manager'] = latest'
       /\ df_manager' \notin frames'
       /\ ret'.op = "get_df" => heap'[ret'.ref] = latest'
       /\ heap'[df_manager'] # heap[df_manager]
              => ret'.op \in {"update_df", "impute_column"}]_vars

\* the caller has overwritten a frame it got from get_df and the frame it
\* gave to update_df, and the manager still holds what it was given
C20_Witness ==
    /\ ret.op = "mutate"
    /\ Cardinality(frames) = MaxFrames
    /\ \A r \in frames : heap[r] # heap[df_manager]
    /\ heap[df_manager] \notin ManagerFrames
    /\ heap[df_manager] = latest

-----------------------------------------------------------------------------
(* Properties of the chat *)

\* every assistant message answers the prompt just before it and carries no
\* chart or the chart made in the turn of that prompt; a prompt carries
\* none; after a completed turn current_chart is None, and a chart left in
\* current_chart is that of the last prompt, whose invocation failed
ChartsBelongToTheirTurn ==
    /\ \A k \in 1..Len(messages) :
          IF messages[k].role = "assistant"
          THEN /\ k > 1
               /\ messages[k - 1].role = "user"
               /\ messages[k].chart \in {0, k - 1}
          ELSE /\ messages[k].role = "user"
               /\ messages[k].chart = 0
    /\ current_chart # 0 =>
          /\ messages # <<>>
          /\ messages[Len(messages)].role = "user"
          /\ current_chart = Len(messages)

\* a step that changes the history appends one prompt, followed by one
\* assistant message when the turn completes
TurnAppends ==
    messages' # messages =>
        /\ Len(messages') \in {Len(messages) + 1, Len(messages) + 2}
        /\ SubSeq(messages', 1, Len(messages)) = messages
        /\ messages'[Len(messages) + 1].role = "user"
        /\ Len(messages') = Len(messages) + 2 =>
              /\ messages'[Len(messages) + 2].role = "assistant"
              /\ current_chart' = 0

\* C21: a chart attached to an assistant message was made by a plotting
\* tool in the invocation of the same turn; a chart left over from an
\* earlier turn, one that failed part-way included, is never attached to or
\* kept for a later prompt; a completed turn appends one prompt followed by
\* one assistant message and leaves current_chart at None.
C21_ChartFromSameTurn == []ChartsBelongToTheirTurn /\ [][TurnAppends]_vars

\* a turn failed, and the next turn completed with a chart of its own
C21_Witness ==
    /\ Len(messages) = 3
    /\ messages[1].role = "user"
    /\ messages[2].role = "user"
    /\ messages[3].role = "assistant"
    /\ messages[3].chart = 2

====
